---------------------------- MODULE Spec2Model ----------------------------
(***************************************************************************)
(* Model of the web-research agent: the action parser and the streaming    *)
(* response consumer (agent.py), the session memory (memory.py), the       *)
(* TF-IDF retrieval index (rag.py) and the turn loop run_research_agent.   *)
(*                                                                         *)
(* Text is a sequence of symbols.  A symbol is a fragment of a line or the *)
(* newline "nl":                                                           *)
(*   "Thought:"          the literal marker a well-formed block begins with *)
(*   "x"                 any other text without parentheses                *)
(*   "Action: Verb("     the opening of an action line, up to its "("      *)
(*   "arg)"              an argument followed by the closing ")"           *)
(*   "Action: Done!"     the terminal action line                          *)
(***************************************************************************)
EXTENDS Integers, Sequences, FiniteSets, TLC

\* ------------------------------------------------------------------ text

NL == "nl"

OpenSyms == {"Action: Search(", "Action: Open(", "Action: Find(",
             "Action: Crawl(", "Action: Recall(", "Action: Done(",
             "Action: Bogus("}

CloseSyms == {"a)", "u1)", "u2)"}

DoneSym == "Action: Done!"

\* the verb group (\w+) of _ACTION_RE, lower-cased by verb.lower()
VerbOf(sym) ==
    CASE sym = "Action: Search(" -> "search"
      [] sym = "Action: Open("   -> "open"
      [] sym = "Action: Find("   -> "find"
      [] sym = "Action: Crawl("  -> "crawl"
      [] sym = "Action: Recall(" -> "recall"
      [] sym = "Action: Done("   -> "done"
      [] OTHER                   -> "bogus"

\* the argument group (.*?) of _ACTION_RE for an "arg)" symbol
ArgOf(sym) ==
    CASE sym = "a)"  -> "a"
      [] sym = "u1)" -> "u1"
      [] sym = "u2)" -> "u2"
      [] OTHER       -> "junk"

_SUPPORTED == {"search", "open", "find", "crawl", "recall", "done"}

\* str.lstrip / str.strip: newlines are the only whitespace symbols
RECURSIVE LStrip(_)
LStrip(s) == IF s # <<>> /\ Head(s) = NL THEN LStrip(Tail(s)) ELSE s

RECURSIVE RStrip(_)
RStrip(s) ==
    IF s # <<>> /\ s[Len(s)] = NL THEN RStrip(SubSeq(s, 1, Len(s) - 1)) ELSE s

Strip(s) == RStrip(LStrip(s))

\* str.splitlines: the lines of s, the newline symbols removed
RECURSIVE SplitFrom(_, _, _)
SplitFrom(s, i, cur) ==
    IF i > Len(s) THEN (IF cur = <<>> THEN <<>> ELSE <<cur>>)
    ELSE IF s[i] = NL THEN <<cur>> \o SplitFrom(s, i + 1, <<>>)
    ELSE SplitFrom(s, i + 1, Append(cur, s[i]))

splitlines(s) == SplitFrom(s, 1, <<>>)

\* the value None of _parse_single_action
NoAction == [verb |-> "None", arg |-> ""]

\* _DONE_RE = ^Action:\s*Done!\s*$ on a stripped text
DoneMatch(s) == s = <<DoneSym>>

\* _ACTION_RE = ^Action:\s*(\w+)\s*\(\s*["']?(.*?)["']?\s*\)\s*$ on a stripped
\* text: it opens with "Action: Verb(", ends with "arg)", and what lies between
\* is newlines (eaten by the \s* after the parenthesis) followed by text
\* without a newline (eaten by the argument group, which no newline matches).
ActionMatch(s) ==
    /\ Len(s) >= 2
    /\ s[1] \in OpenSyms
    /\ s[Len(s)] \in CloseSyms
    /\ \A i \in 2..(Len(s) - 1) :
          s[i] = NL => \A j \in 2..i : s[j] = NL

ActionArg(s) ==
    IF \A i \in 2..(Len(s) - 1) : s[i] = NL THEN ArgOf(s[Len(s)]) ELSE "junk"

\* a parser that accepts any verb
_parse_single_action_anyverb(line) ==
    IF DoneMatch(line) THEN [verb |-> "done", arg |-> ""]
    ELSE IF ActionMatch(line)
         THEN [verb |-> VerbOf(line[1]), arg |-> ActionArg(line)]
         ELSE NoAction

_parse_single_action(line) ==
    IF DoneMatch(line) THEN [verb |-> "done", arg |-> ""]
    ELSE IF ActionMatch(line)
         THEN IF VerbOf(line[1]) \notin _SUPPORTED
              THEN NoAction
              ELSE [verb |-> VerbOf(line[1]), arg |-> ActionArg(line)]
         ELSE NoAction

ACTION_LIMIT == 4

\* raw.lower().startswith("action:")
StartsWithAction(raw) == raw # <<>> /\ (raw[1] \in OpenSyms \/ raw[1] = DoneSym)

RECURSIVE ExtractFrom(_, _, _, _)
ExtractFrom(lines, i, actions, limit) ==
    IF i > Len(lines) THEN actions
    ELSE LET raw   == Strip(lines[i])
             maybe == _parse_single_action(raw)
         IN  IF ~StartsWithAction(raw) \/ maybe = NoAction
             THEN ExtractFrom(lines, i + 1, actions, limit)
             ELSE IF Len(actions) + 1 >= limit \/ maybe.verb = "done"
                  THEN Append(actions, maybe)
                  ELSE ExtractFrom(lines, i + 1, Append(actions, maybe), limit)

_extract_actions(block) == ExtractFrom(splitlines(block), 1, <<>>, ACTION_LIMIT)

_has_valid_format_anystart(block) == _extract_actions(block) # <<>>

_has_valid_format(block) ==
    /\ LStrip(block) # <<>>
    /\ Head(LStrip(block)) = "Thought:"
    /\ _extract_actions(block) # <<>>

_select_actions_all(actions) == actions

_select_actions(actions) ==
    IF actions # <<>> THEN SubSeq(actions, 1, 1) ELSE <<>>

\* ------------------------------------------------- streaming consumer

EndsWithNl(tok) == tok # <<>> /\ tok[Len(tok)] = NL

\* the for loop of _stream_until_actions over the tokens toks[i..]; the result
\* is the text accumulated in out (stripped), the number of tokens consumed
\* and whether the stream raised. raise_at = k >= 1: the stream raises when
\* it is asked for its k-th item; raise_at = 0: it never raises.
RECURSIVE StreamLoop(_, _, _, _, _)
StreamLoop(toks, i, out, curr, raise_at) ==
    IF i = raise_at
    THEN [out |-> Strip(out), consumed |-> i - 1, raised |-> TRUE]
    ELSE IF i > Len(toks)
    THEN [out |-> Strip(out), consumed |-> Len(toks), raised |-> FALSE]
    ELSE LET out2  == out \o toks[i]
             curr2 == curr \o toks[i]
         IN  IF EndsWithNl(toks[i])
             THEN IF _parse_single_action(Strip(curr2)) # NoAction
                  THEN [out |-> Strip(out2), consumed |-> i, raised |-> FALSE]
                  ELSE StreamLoop(toks, i + 1, out2, <<>>, raise_at)
             ELSE StreamLoop(toks, i + 1, out2, curr2, raise_at)

\* a consumer that hands back what it received before the stream raised
_stream_until_actions_partial(toks, raise_at) == StreamLoop(toks, 1, <<>>, <<>>, raise_at)

\* the try block around the loop; the except branch returns ""
_stream_until_actions(toks, raise_at) ==
    LET r == StreamLoop(toks, 1, <<>>, <<>>, raise_at)
    IN  IF r.raised THEN [r EXCEPT !.out = <<>>] ELSE r

\* the points at which a stream of these tokens can raise, 0 for never
RaisePoints(toks) == 0..(Len(toks) + 1)

\* ------------------------------------------------------ retrieval index
\* Page text is a sequence of symbols: the words "a", "A", "b", the
\* punctuation "-" and the markup "<s>" that the text extractor removes.
\* Numbers of the index (document frequencies, idf weights, vector entries)
\* are fixed-point with three decimals: 1.0 is 1000.

Words == {"a", "A", "b"}

Lower(w) == IF w = "A" THEN "a" ELSE w

\* rag._tokens: the runs of [A-Za-z0-9'], lower-cased
RECURSIVE _tokens(_)
_tokens(text) ==
    IF text = <<>> THEN <<>>
    ELSE IF Head(text) \in Words
         THEN <<Lower(Head(text))>> \o _tokens(Tail(text))
         ELSE _tokens(Tail(text))

TermSet(toks) == {toks[i] : i \in DOMAIN toks}

Count(toks, t) == Cardinality({i \in DOMAIN toks : toks[i] = t})

RECURSIVE SumOver(_, _)
SumOver(f, S) ==
    IF S = {} THEN 0
    ELSE LET t == CHOOSE u \in S : TRUE IN f[t] + SumOver(f, S \ {t})

\* natural logarithm of p/q (p, q > 0) in units of 1/10000:
\* ln(p/q) = k ln 2 + 2 atanh((p'-q')/(p'+q')) with 1 <= p'/q' < 2
RECURSIVE LnE4(_, _)
LnE4(p, q) ==
    IF p <= 0 \/ q <= 0 THEN 0
    ELSE IF p >= 2 * q THEN LnE4(p, 2 * q) + 6931
    ELSE IF p < q THEN LnE4(2 * p, q) - 6931
    ELSE LET z  == ((p - q) * 10000) \div (p + q)
             z2 == (z * z) \div 10000
             z3 == (z * z2) \div 10000
             z5 == (z3 * z2) \div 10000
             z7 == (z5 * z2) \div 10000
         IN  2 * (z + (z3 \div 3) + (z5 \div 5) + (z7 \div 7))

\* math.log(N / (1 + x)) for a document count N and a table entry x (x in
\* thousandths), rounded to thousandths
log(N, x) == (LnE4(1000 * N, 1000 + x) + 5) \div 10

\* math.sqrt on a square of thousandths, rounded down
RECURSIVE SqrtBetween(_, _, _)
SqrtBetween(n, lo, hi) ==
    IF lo >= hi THEN lo
    ELSE LET mid == (lo + hi + 1) \div 2
         IN  IF mid * mid <= n THEN SqrtBetween(n, mid, hi)
             ELSE SqrtBetween(n, lo, mid - 1)

sqrt(n) == SqrtBetween(n, 0, 46340)

\* Counter.__getitem__: a missing key reads as 0
IdfGet(idf, t) == IF t \in DOMAIN idf THEN idf[t] ELSE 0

_tfidf_vector(doc_tokens, idf) ==
    [t \in TermSet(doc_tokens) |-> Count(doc_tokens, t) * IdfGet(idf, t)]

_cosine(a, b) ==
    IF DOMAIN a = {} \/ DOMAIN b = {} THEN 0
    ELSE LET num == SumOver([t \in DOMAIN a |-> a[t] * IdfGet(b, t)], DOMAIN a)
             na  == sqrt(SumOver([t \in DOMAIN a |-> a[t] * a[t]], DOMAIN a))
             nb  == sqrt(SumOver([t \in DOMAIN b |-> b[t] * b[t]], DOMAIN b))
         IN  IF na * nb = 0 THEN 0
             ELSE ((num \div na) * 1000 + ((num % na) * 1000) \div na) \div nb

NoVec == [t \in {} |-> 0]

\* MiniVectorStore.__init__
EmptyStore == [docs |-> <<>>, idf |-> NoVec, finalised |-> FALSE]

\* Counter.update(set(toks)): one more for every distinct token
CounterUpdate(idf, S) ==
    [t \in DOMAIN idf \cup S |->
        IF t \in S THEN IdfGet(idf, t) + 1000 ELSE idf[t]]

\* an insertion that leaves the finalised flag as it was
add_keepflag(store, url, text) ==
    LET toks == _tokens(text)
    IN  IF toks = <<>> THEN store
        ELSE [docs |-> Append(store.docs,
                         [url |-> url, toks |-> toks, hasvec |-> FALSE, vec |-> NoVec]),
              idf |-> CounterUpdate(store.idf, TermSet(toks)),
              finalised |-> store.finalised]

\* MiniVectorStore.add
add(store, url, text) ==
    LET toks == _tokens(text)
    IN  IF toks = <<>> THEN store
        ELSE [docs |-> Append(store.docs,
                         [url |-> url, toks |-> toks, hasvec |-> FALSE, vec |-> NoVec]),
              idf |-> CounterUpdate(store.idf, TermSet(toks)),
              finalised |-> FALSE]

\* a finalization that does not record that it ran
_finalize_unflagged(store) ==
    LET N   == IF Len(store.docs) = 0 THEN 1 ELSE Len(store.docs)
        idf == [t \in DOMAIN store.idf |-> log(N, store.idf[t])]
    IN  [docs |-> [i \in DOMAIN store.docs |->
                     [store.docs[i] EXCEPT !.hasvec = TRUE,
                                           !.vec = _tfidf_vector(store.docs[i].toks, idf)]],
         idf |-> idf,
         finalised |-> FALSE]

\* MiniVectorStore._finalize: the table entry is overwritten in place by the
\* logarithm computed from whatever number the entry holds
_finalize(store) ==
    LET N   == IF Len(store.docs) = 0 THEN 1 ELSE Len(store.docs)
        idf == [t \in DOMAIN store.idf |-> log(N, store.idf[t])]
    IN  [docs |-> [i \in DOMAIN store.docs |->
                     [store.docs[i] EXCEPT !.hasvec = TRUE,
                                           !.vec = _tfidf_vector(store.docs[i].toks, idf)]],
         idf |-> idf,
         finalised |-> TRUE]

\* sorted(scored, key=score, reverse=True): stable, descending
\* a sort that puts an element before those of equal score
RECURSIVE InsertDesc_unstable(_, _)
InsertDesc_unstable(sorted, e) ==
    IF sorted = <<>> THEN <<e>>
    ELSE IF Head(sorted).score > e.score
         THEN <<Head(sorted)>> \o InsertDesc_unstable(Tail(sorted), e)
         ELSE <<e>> \o sorted

RECURSIVE InsertDesc(_, _)
InsertDesc(sorted, e) ==
    IF sorted = <<>> THEN <<e>>
    ELSE IF Head(sorted).score >= e.score
         THEN <<Head(sorted)>> \o InsertDesc(Tail(sorted), e)
         ELSE <<e>> \o sorted

RECURSIVE SortDesc(_, _)
SortDesc(scored, acc) ==
    IF scored = <<>> THEN acc
    ELSE SortDesc(Tail(scored), InsertDesc(acc, Head(scored)))

FirstK(s, k) == SubSeq(s, 1, IF Len(s) < k THEN Len(s) ELSE k)

\* the scoring loop of similarity_search: "if doc_vec" skips an unset or
\* empty vector
\* pos, the place of the document in self.docs, is carried along for the
\* statements about the order of the hits; the program's pairs are
\* (url, score)
RECURSIVE ScoreFrom(_, _, _)
ScoreFrom(docs, i, q_vec) ==
    IF i > Len(docs) THEN <<>>
    ELSE LET d == docs[i]
         IN  (IF d.hasvec /\ DOMAIN d.vec # {}
              THEN <<[url |-> d.url, score |-> _cosine(d.vec, q_vec), pos |-> i]>>
              ELSE <<>>) \o ScoreFrom(docs, i + 1, q_vec)

ScoreDocs(docs, q_vec) == ScoreFrom(docs, 1, q_vec)

\* MiniVectorStore.similarity_search: the store after the call and the hits
similarity_search(store, query, k) ==
    LET st    == IF store.docs # <<>> /\ ~store.finalised
                 THEN _finalize(store) ELSE store
        q_vec == _tfidf_vector(_tokens(query), st.idf)
    IN  [store |-> st,
         hits  |-> FirstK(SortDesc(ScoreDocs(st.docs, q_vec), <<>>), k)]

\* ------------------------------------------------------- session memory

URLs == {"u1", "u2"}

\* parser.parse_html: "" for empty markup; otherwise the text outside the
\* markup, cut to max_length = 3500
parse_html(html) ==
    IF html = <<>> THEN <<>>
    ELSE FirstK(SelectSeq(html, LAMBDA c : c # "<s>"), 3500)

\* parser.extract_relevant_snippets: the first n = 4 pieces of the text that
\* mention a word of the query
extract_relevant_snippets(text, query) ==
    FirstK(SelectSeq(text, LAMBDA c : \E i \in DOMAIN query : Lower(query[i]) = Lower(c)), 4)

\* Memory.__init__
NewMemory ==
    [cache |-> NoVec,
     vstore |-> EmptyStore,
     sources |-> <<>>,
     opened |-> FALSE,
     last_opened_url |-> "",
     last_page_text |-> <<>>]

UpTo2(n) == IF n >= 2 THEN 2 ELSE n + 1

\* Memory.add_source
add_source(mem, url, snippet) ==
    [mem EXCEPT !.sources = Append(@, [url |-> url, snippet |-> FirstK(snippet, 200)])]

\* an add_web_content that indexes the page without caching it
add_web_content_uncached(mem, url, html) ==
    LET text == parse_html(html)
    IN  [mem EXCEPT !.vstore = IF text # <<>> THEN add(mem.vstore, url, text) ELSE @]

\* Memory.add_web_content
add_web_content(mem, url, html) ==
    LET text == parse_html(html)
    IN  [mem EXCEPT
           !.cache  = [u \in DOMAIN mem.cache \cup {url} |->
                          IF u = url THEN html ELSE mem.cache[u]],
           !.vstore = IF text # <<>> THEN add(mem.vstore, url, text) ELSE @]

\* the value None of fetcher.fetch_page
FetchNone == [ok |-> FALSE, html |-> <<>>]

\* an open_or_fetch that records the URL as the last opened one although the
\* fetch failed
open_or_fetch_marking(mem, url, query, auto_snippet, fetched) ==
    [mem |-> [mem EXCEPT !.opened = TRUE, !.last_opened_url = url],
     failed |-> TRUE, snippet |-> <<>>]

\* Memory.open_or_fetch; fetched is what fetcher.fetch_page returns if it is
\* called.  The result is the memory after the call and the returned text.
open_or_fetch(mem, url, query, auto_snippet, fetched) ==
    LET cached == url \in DOMAIN mem.cache
        got    == IF cached THEN [ok |-> TRUE, html |-> mem.cache[url]] ELSE fetched
        m2     == IF ~cached /\ got.ok /\ got.html # <<>>
                  THEN add_web_content(mem, url, got.html) ELSE mem
    IN  IF ~got.ok \/ got.html = <<>>
        THEN [mem |-> m2, failed |-> TRUE, snippet |-> <<>>]
        ELSE LET text    == parse_html(got.html)
                 m3      == [m2 EXCEPT !.opened = TRUE,
                                       !.last_opened_url = url,
                                       !.last_page_text = text]
                 rel     == extract_relevant_snippets(text, query)
                 snippet == IF query # <<>> /\ auto_snippet
                            THEN (IF rel # <<>> THEN rel ELSE FirstK(text, 400))
                            ELSE FirstK(text, 400)
             IN  [mem |-> add_source(m3, url, snippet), failed |-> FALSE,
                  snippet |-> snippet]

\* a search for the keyword that returns every occurrence
_find_chunks_uncapped(text, needle) ==
    Cardinality({i \in DOMAIN text : Lower(text[i]) = Lower(needle)})

\* agent._find_chunks: one hit for each of the first max_hits = 3 occurrences
_find_chunks(text, needle) ==
    LET occ == Cardinality({i \in DOMAIN text : Lower(text[i]) = Lower(needle)})
    IN  IF occ > 3 THEN 3 ELSE occ

\* ------------------------------------------------------------ turn loop

MAX_LOOPS == 4
MIN_SUPPORT_SOURCES == 1
\* the value the tunable MIN_SUPPORT_SOURCES has in the run at hand
VARIABLE min_sources
\* the tunable as shipped, and raised by one
MinSupportValues == MIN_SUPPORT_SOURCES..(MIN_SUPPORT_SOURCES + 1)
ACTIONS_PER_TURN == 4

\* bounds of the model
MaxSources == 2
MaxDocs == 2

\* the user's question, and an action argument read as a query text
UserQuery == <<"a">>
QueryText(arg) == <<arg>>

Obs(kind, n, m) == [kind |-> kind, n |-> n, m |-> m]

FormatObs == Obs("Reply must start with Thought: and contain an Action.", 0, 0)

\* what the collaborators answer during one iteration: fetch[u] is the result
\* of fetcher.fetch_page(u), crawl the pages crawler.crawl_site returns
\* The web of the model: the markup each URL serves.  fetch_page returns it
\* or None; crawl_site returns the plain text (get_text) of the pages it
\* reached from the seed, none, the seed alone or both.
Web == [u \in URLs |-> IF u = "u1" THEN <<"<s>", "b">> ELSE <<"<s>", "a", "A", "a", "a">>]
get_text(html) == SelectSeq(html, LAMBDA c : c # "<s>")
CrawlResults ==
    {<<>>,
     <<[url |-> "u1", text |-> get_text(Web["u1"])]>>,
     <<[url |-> "u1", text |-> get_text(Web["u1"])],
       [url |-> "u2", text |-> get_text(Web["u2"])]>>}

FetchOf(env, url) == IF url \in URLs THEN env.fetch[url] ELSE FetchNone

\* for url, html in pages.items(): mem.add_web_content(url, html)
RECURSIVE AddPages(_, _)
AddPages(mem, pages) ==
    IF pages = <<>> THEN mem
    ELSE AddPages(add_web_content(mem, Head(pages).url, Head(pages).text), Tail(pages))

\* a Recall that opens the best hit only
RecallHits_first(mem, hits, arg, env) ==
    IF hits = <<>> THEN mem
    ELSE open_or_fetch(mem, Head(hits).url, QueryText(arg), TRUE,
                       FetchOf(env, Head(hits).url)).mem

\* for url, score in hits: mem.open_or_fetch(url, query=arg, auto_snippet=True)
RECURSIVE RecallHits(_, _, _, _)
RecallHits(mem, hits, arg, env) ==
    IF hits = <<>> THEN mem
    ELSE RecallHits(open_or_fetch(mem, Head(hits).url, QueryText(arg), TRUE,
                                  FetchOf(env, Head(hits).url)).mem,
                    Tail(hits), arg, env)

DoneRejected_never(mem) == FALSE

\* len(mem.sources) < MIN_SUPPORT_SOURCES
DoneRejected(mem) == Len(mem.sources) < min_sources

\* one iteration of "for action, arg in actions_to_run" on the run state
\* st = [mem, observations, answered]
Execute(st, act, env) ==
    LET mem == st.mem
        say(m, o) == [st EXCEPT !.mem = m, !.observations = Append(@, o)]
    IN  CASE act.verb = "search" -> say(mem, Obs("search results", 0, 0))
          [] act.verb = "open" ->
                LET r == open_or_fetch(mem, act.arg, UserQuery, TRUE, FetchOf(env, act.arg))
                IN  say(r.mem, Obs(IF r.failed THEN "[Open] Failed to fetch" ELSE "[Open]", 0, 0))
          [] act.verb = "find" ->
                IF ~mem.opened THEN say(mem, Obs("Nothing open", 0, 0))
                ELSE LET hits == _find_chunks(mem.last_page_text, act.arg)
                     IN  say(mem, IF hits > 0 THEN Obs("find hits", hits, 0)
                                  ELSE Obs("No occurrences", 0, 0))
          [] act.verb = "crawl" ->
                say(AddPages(mem, env.crawl), Obs("Crawled", Len(env.crawl), 0))
          [] act.verb = "recall" ->
                LET r  == similarity_search(mem.vstore, QueryText(act.arg), 5)
                    m1 == [mem EXCEPT !.vstore = r.store]
                IN  IF r.hits = <<>> THEN say(m1, Obs("No relevant docs yet", 0, 0))
                    ELSE say(RecallHits(m1, r.hits, act.arg, env), Obs("recalled", Len(r.hits), 0))
          [] act.verb = "done" ->
                IF DoneRejected(mem)
                THEN say(mem, Obs("Only n source(s); need m.", Len(mem.sources),
                                  min_sources))
                ELSE [st EXCEPT !.answered = TRUE]
          [] OTHER -> say(mem, Obs("Unknown action", 0, 0))

\* the for loop over actions_to_run; the return inside it ends the loop
RECURSIVE RunActions(_, _, _)
RunActions(st, actions, env) ==
    IF actions = <<>> \/ st.answered THEN st
    ELSE RunActions([Execute(st, Head(actions), env) EXCEPT !.ran = Append(@, Head(actions))],
                    Tail(actions), env)

\* what the model may write in one generation, and how it arrives as tokens
ActionLines ==
    {<<"Action: Search(", "a)">>, <<"Action: Open(", "u1)">>, <<"Action: Open(", "u2)">>,
     <<"Action: Find(", "a)">>, <<"Action: Crawl(", "u1)">>, <<"Action: Recall(", "a)">>,
     <<DoneSym>>}

ModelTexts ==
    {<<"Thought:", NL>> \o l : l \in ActionLines}
      \cup {<<"Thought:", NL>> \o l \o <<NL, "Action: Open(", "u1)">> :
               l \in {<<"Action: Search(", "a)">>, <<"Action: Find(", "a)">>, <<DoneSym>>}}
      \cup {<<"Thought:", NL, "Action: Open(", "u2)", NL, DoneSym>>,
            <<>>, <<"Thought:", NL, "x">>, <<"x", NL, "Action: Search(", "a)">>,
            <<"Thought:", NL, "Action: Bogus(", "a)">>}

\* one token for each symbol and the newline that ends the last line
PerSymbol(text) == [i \in 1..(Len(text) + 1) |-> IF i <= Len(text) THEN <<text[i]>> ELSE <<NL>>]

\* the whole generation in one token
Whole(text) == <<text>>

ModelStreams == {PerSymbol(t) : t \in ModelTexts} \cup {Whole(t) : t \in ModelTexts}

\* what _stream_until_actions returns for these streams, the empty block of
\* a stream that raised included
ModelBlocks ==
    UNION {{[out |-> _stream_until_actions(t, k).out,
             raised |-> _stream_until_actions(t, k).raised] : k \in RaisePoints(t)} :
           t \in ModelStreams}

\* "if not _has_valid_format(llm_out)" and "actions = _extract_actions(llm_out)"
IllFormed == {b \in ModelBlocks : ~_has_valid_format(b.out)}
WellFormed == {[out |-> b.out, raised |-> b.raised, actions |-> _extract_actions(b.out)] :
                  b \in {c \in ModelBlocks : _has_valid_format(c.out)}}

\* turn_run and total_run count the actions executed in the turn and in the
\* run; the program keeps no such counters
VARIABLES pc, loop, actions_run, action, mem, hist, llm_out, stream_raised,
          ran, summaries, summary_src, notice, turn_run, total_run,
          store, once, last_add, repeated, rag_hits, once_hits, rag_op, rag_k,
          finalize_runs, searches_in_row, strm, trs, prs, crw

loopvars == <<min_sources, pc, loop, actions_run, action, mem, hist, llm_out,
              stream_raised, ran, summaries, summary_src, notice, turn_run, total_run>>
ragvars == <<store, once, last_add, repeated, rag_hits, once_hits, rag_op, rag_k,
             finalize_runs, searches_in_row>>
vars == <<loopvars, ragvars, strm, trs, prs, crw>>

\* hist is the tail of the transcript: the observations its latest entry
\* carries. _trim_history and the slice at MAX_HISTORY_CHARS only ever drop
\* a prefix, and nothing but the model prompt reads the older entries.

\* run_research_agent up to its first loop test
LoopStart ==
    /\ pc = "outer"
    /\ loop = 0
    /\ actions_run = 0
    /\ action = "unbound"
    /\ mem = NewMemory
    /\ hist = <<Obs("system prompt", 0, 0)>>
    /\ llm_out = <<>>
    /\ stream_raised = FALSE
    /\ ran = <<>>
    /\ summaries = 0
    /\ summary_src = <<>>
    /\ notice = FALSE
    /\ turn_run = 0
    /\ total_run = 0

LoopInit == min_sources = MIN_SUPPORT_SOURCES /\ LoopStart

RagInit ==
    /\ store = EmptyStore
    /\ once = EmptyStore
    /\ last_add = [url |-> "", text |-> <<>>]
    /\ repeated = FALSE
    /\ rag_hits = <<>>
    /\ once_hits = <<>>
    /\ rag_op = "init"
    /\ rag_k = 0
    /\ finalize_runs = 0
    /\ searches_in_row = 0

StreamIdle == strm = [toks |-> <<>>, applied |-> FALSE, raised |-> FALSE,
                      out |-> <<>>, consumed |-> 0]

HistIdle == trs = [hist |-> <<>>, prompt |-> <<>>, trims |-> <<>>]

ParseIdle == prs = [block |-> <<>>, limit |-> 0, applied |-> FALSE, actions |-> <<>>]

CrawlIdle == crw = [pc |-> "idle", site |-> <<>>, seed |-> <<>>, max_pages |-> 0,
                    q |-> <<>>, seen |-> {}, out |-> <<>>, requested |-> <<>>]

\* "while loop < MAX_LOOPS: loop += 1; actions_run = 0"
LoopTest ==
    /\ pc = "outer"
    /\ IF loop < MAX_LOOPS
       THEN /\ loop' = loop + 1
            /\ actions_run' = 0
            /\ turn_run' = 0
            /\ pc' = "inner"
       ELSE /\ pc' = "epilogue"
            /\ UNCHANGED <<loop, actions_run, turn_run>>
    /\ UNCHANGED total_run
    /\ UNCHANGED <<action, mem, hist, llm_out, stream_raised, ran, summaries,
                   summary_src, notice>>

\* "while actions_run < ACTIONS_PER_TURN"
TurnOpen_late == actions_run <= ACTIONS_PER_TURN

TurnOpen == actions_run < ACTIONS_PER_TURN

\* "while actions_run < ACTIONS_PER_TURN" is false: line 287 decides
TurnEnd ==
    /\ pc = "inner"
    /\ ~TurnOpen
    /\ UNCHANGED <<turn_run, total_run>>
    /\ pc' = IF action = "done" THEN "epilogue" ELSE "outer"
    /\ UNCHANGED <<loop, actions_run, action, mem, hist, llm_out, stream_raised, ran,
                   summaries, summary_src, notice>>

\* _summarise calls the model with no handler around the call: when the
\* model backend raises, the exception leaves run_research_agent
_summarise(raised, then) == IF raised THEN "crashed" ELSE then

\* an exception that leaves run_research_agent unwinds its frame: the locals
\* are gone with it
Unwound ==
    /\ loop' = 0
    /\ actions_run' = 0
    /\ action' = "unbound"
    /\ mem' = NewMemory
    /\ hist' = <<>>
    /\ llm_out' = <<>>
    /\ stream_raised' = FALSE
    /\ ran' = <<>>

\* an iteration of the inner loop whose model call never returns a block:
\* _budget tokenizes the prompt before the try of _stream_until_actions, so a
\* tokenizer that raises there ends the run with the exception
BudgetRaises ==
    /\ pc = "inner"
    /\ TurnOpen
    /\ pc' = "crashed"
    /\ Unwound
    /\ UNCHANGED <<summaries, summary_src, notice, turn_run, total_run>>

\* an iteration of the inner loop whose block is not well-formed
FormatErrorStep ==
    /\ pc = "inner"
    /\ TurnOpen
    /\ UNCHANGED <<turn_run, total_run>>
    /\ \E b \in IllFormed : llm_out' = b.out /\ stream_raised' = b.raised
    /\ hist' = <<FormatObs>>
    /\ ran' = <<>>
    /\ UNCHANGED <<pc, loop, actions_run, action, mem, summaries, summary_src, notice>>

\* the fetches and the crawl an iteration running these actions can make
EnvsFor(m, actions) ==
    LET verbs   == {actions[i].verb : i \in DOMAIN actions}
        recalls == {j \in DOMAIN actions : actions[j].verb = "recall"}
        hits(j) == LET h == similarity_search(m.vstore, QueryText(actions[j].arg), 5).hits
                   IN  {h[i].url : i \in DOMAIN h}
        fetched == {actions[i].arg : i \in {j \in DOMAIN actions : actions[j].verb = "open"}}
                     \cup UNION {hits(j) : j \in recalls}
        asked   == (fetched \cap URLs) \ DOMAIN m.cache
    IN  {[fetch |-> [u \in URLs |-> IF u \in ok THEN [ok |-> TRUE, html |-> Web[u]]
                                     ELSE FetchNone],
          crawl |-> c] :
            ok \in SUBSET asked,
            c \in IF "crawl" \in verbs THEN CrawlResults ELSE {<<>>}}

\* an iteration of the inner loop that dispatches
DispatchStep ==
    /\ pc = "inner"
    /\ TurnOpen
    /\ \E b \in WellFormed :
          /\ b.actions # <<>>
          /\ \E to_run \in {_select_actions(b.actions)} :
              \E env \in EnvsFor(mem, to_run) :
              \E r \in {RunActions([mem |-> mem, observations |-> <<>>,
                                    answered |-> FALSE, ran |-> <<>>], to_run, env)} :
                    LET last == r.ran[Len(r.ran)].verb
                        landed == /\ llm_out' = b.out
                                  /\ stream_raised' = b.raised
                                  /\ mem' = r.mem
                                  /\ ran' = r.ran
                                  /\ action' = last
                                  /\ UNCHANGED loop
                    IN  /\ Len(r.mem.sources) <= MaxSources
                        /\ Len(r.mem.vstore.docs) <= MaxDocs
                        /\ turn_run' = turn_run + Len(r.ran)
                        /\ total_run' = total_run + Len(r.ran)
                        /\ IF r.answered
                           THEN /\ summaries' = UpTo2(summaries)
                                /\ \E raised \in BOOLEAN :
                                      /\ pc' = _summarise(raised, "answered")
                                      /\ IF raised
                                         THEN Unwound /\ UNCHANGED summary_src
                                         ELSE /\ landed
                                              /\ summary_src' = r.mem.sources
                                              /\ UNCHANGED <<hist, actions_run>>
                           ELSE /\ landed
                                /\ hist' = r.observations
                                /\ actions_run' = actions_run + 1
                                /\ pc' = IF last = "done" THEN "epilogue" ELSE "inner"
                                /\ UNCHANGED <<summaries, summary_src>>
    /\ UNCHANGED notice

\* lines 290-291: the notice and the best-effort summary
MaxLoopsReached ==
    /\ pc = "epilogue"
    /\ UNCHANGED <<turn_run, total_run>>
    /\ notice' = TRUE
    /\ summaries' = UpTo2(summaries)
    /\ \E raised \in BOOLEAN :
          /\ pc' = _summarise(raised, "exhausted")
          /\ IF raised
             THEN Unwound /\ UNCHANGED summary_src
             ELSE /\ summary_src' = mem.sources
                  /\ UNCHANGED <<loop, actions_run, action, mem, hist, llm_out,
                                 stream_raised, ran>>

Init == LoopInit /\ RagInit /\ StreamIdle /\ HistIdle /\ ParseIdle /\ CrawlIdle

Next ==
    \/ LoopTest /\ UNCHANGED <<min_sources, ragvars, strm, trs, prs, crw>>
    \/ TurnEnd /\ UNCHANGED <<min_sources, ragvars, strm, trs, prs, crw>>
    \/ BudgetRaises /\ UNCHANGED <<min_sources, ragvars, strm, trs, prs, crw>>
    \/ FormatErrorStep /\ UNCHANGED <<min_sources, ragvars, strm, trs, prs, crw>>
    \/ DispatchStep /\ UNCHANGED <<min_sources, ragvars, strm, trs, prs, crw>>
    \/ MaxLoopsReached /\ UNCHANGED <<min_sources, ragvars, strm, trs, prs, crw>>

Spec == Init /\ [][Next]_vars

\* the run is one sequential thread: it takes its next step whenever it has one
FairSpec == Init /\ [][Next]_vars /\ WF_vars(Next)

\* the runs of the program with MIN_SUPPORT_SOURCES set to any of
\* MinSupportValues
InitTunable ==
    /\ min_sources \in MinSupportValues
    /\ LoopStart /\ RagInit /\ StreamIdle /\ HistIdle /\ ParseIdle /\ CrawlIdle

SpecTunable == InitTunable /\ [][Next]_vars

\* ------------------------------------------- the retrieval index alone
\* MiniVectorStore under any interleaving of add and similarity_search.
\* once is a second store that receives the same calls except an insertion
\* repeating the (id, text) pair inserted just before it. finalize_runs counts
\* the calls of _finalize on store (line 47) and searches_in_row the queries
\* since the last add (2 stands for two or more); the program keeps no such
\* counters.

MaxRagDocs == 3

RagTexts == {<<"-">>, <<"a">>, <<"A", "b">>}
RagQueries == {<<"A", "b">>}
RagK == {1, 5}

RagAdd ==
    /\ Len(store.docs) < MaxRagDocs
    /\ \E url \in URLs, text \in RagTexts :
          /\ store' = add(store, url, text)
          /\ IF rag_op = "add" /\ last_add = [url |-> url, text |-> text]
             THEN once' = once /\ repeated' = TRUE
             ELSE once' = add(once, url, text) /\ UNCHANGED repeated
          /\ last_add' = [url |-> url, text |-> text]
    /\ rag_op' = "add"
    /\ searches_in_row' = 0
    /\ UNCHANGED <<rag_hits, once_hits, rag_k, finalize_runs>>

RagSearch ==
    /\ \E query \in RagQueries, k \in RagK :
          \E r \in {similarity_search(store, query, k)},
             ro \in {similarity_search(once, query, k)} :
                /\ store' = r.store
                /\ rag_hits' = r.hits
                /\ once' = ro.store
                /\ once_hits' = ro.hits
                /\ rag_k' = k
    /\ finalize_runs' = IF store.docs # <<>> /\ ~store.finalised
                        THEN finalize_runs + 1 ELSE finalize_runs
    /\ searches_in_row' = IF searches_in_row < 2 THEN searches_in_row + 1 ELSE 2
    /\ rag_op' = "search"
    /\ UNCHANGED <<last_add, repeated>>

LoopIdle ==
    /\ min_sources = MIN_SUPPORT_SOURCES
    /\ pc = "idle"
    /\ loop = 0
    /\ actions_run = 0
    /\ action = "unbound"
    /\ mem = NewMemory
    /\ hist = <<>>
    /\ llm_out = <<>>
    /\ stream_raised = FALSE
    /\ ran = <<>>
    /\ summaries = 0
    /\ summary_src = <<>>
    /\ notice = FALSE
    /\ turn_run = 0
    /\ total_run = 0

InitRag == LoopIdle /\ RagInit /\ StreamIdle /\ HistIdle /\ ParseIdle /\ CrawlIdle

NextRag ==
    \/ RagAdd /\ UNCHANGED <<loopvars, strm, trs, prs, crw>>
    \/ RagSearch /\ UNCHANGED <<loopvars, strm, trs, prs, crw>>

SpecRag == InitRag /\ [][NextRag]_vars

\* ------------------------------------------ the streaming consumer alone
\* _stream_until_actions applied to every stream of at most MaxToks tokens of
\* at most MaxTokLen symbols each.

MaxToks == 3
MaxTokLen == 2

StreamSyms == {"Thought:", "x", NL, "Action: Search(", "a)"}

RECURSIVE SeqsUpTo(_, _)
SeqsUpTo(S, n) ==
    IF n = 0 THEN {<<>>}
    ELSE SeqsUpTo(S, n - 1) \cup {Append(t, c) : t \in {u \in SeqsUpTo(S, n - 1) : Len(u) = n - 1},
                                              c \in S}

Tokens == SeqsUpTo(StreamSyms, MaxTokLen) \ {<<>>}
TokenStreams == SeqsUpTo(Tokens, MaxToks)

InitStream ==
    /\ LoopIdle
    /\ RagInit
    /\ HistIdle
    /\ ParseIdle
    /\ CrawlIdle
    /\ \E toks \in TokenStreams :
          strm = [toks |-> toks, applied |-> FALSE, raised |-> FALSE,
                  out |-> <<>>, consumed |-> 0]

Consume ==
    /\ ~strm.applied
    /\ \E raise_at \in RaisePoints(strm.toks) :
          \E r \in {_stream_until_actions(strm.toks, raise_at)} :
             strm' = [strm EXCEPT !.applied = TRUE, !.raised = r.raised,
                                  !.out = r.out, !.consumed = r.consumed]
    /\ UNCHANGED <<loopvars, ragvars, trs, prs, crw>>

NextStream == Consume

SpecStream == InitStream /\ [][NextStream]_vars

\* ------------------------------------------------- the transcript alone
\* The transcript hist of run_research_agent as text, a sequence of
\* characters: "c" for any character but the newline, and the newline. The
\* budgets are scaled to transcripts of a few characters and keep the order
\* of the program's: the context window (n_ctx() - reserve tokens) holds more
\* characters than MAX_HISTORY_CHARS.

\* MAX_HISTORY_CHARS, scaled
MaxHistoryChars == 4
\* _llm.n_ctx() - reserve, scaled: the tokens the context window leaves
MaxIn == 3
\* the characters of one token of the tokenizer
CharsPerToken == 2

\* text[-n:]
LastChars(text, n) ==
    IF n = 0 \/ Len(text) <= n THEN text ELSE SubSeq(text, Len(text) - n + 1, Len(text))

\* len(_llm.tokenize(text.encode()))
NumTokens(text) == (Len(text) + CharsPerToken - 1) \div CharsPerToken

\* _llm.detokenize(tokens[-max_in:]): the text of the last max_in tokens
LastTokens(text, max_in) ==
    SubSeq(text, (NumTokens(text) - max_in) * CharsPerToken + 1, Len(text))

\* tok_ok: n_ctx and tokenize return; detok_ok: detokenize returns
_trim_history(text, tok_ok, detok_ok) ==
    IF ~tok_ok THEN LastChars(text, MaxHistoryChars)
    ELSE IF NumTokens(text) <= MaxIn THEN text
    ELSE IF detok_ok THEN LastTokens(text, MaxIn)
    ELSE LastChars(text, (Len(text) * MaxIn) \div NumTokens(text))

\* "if len(hist) > MAX_HISTORY_CHARS: hist = hist[-MAX_HISTORY_CHARS:]"
ClipHistory(text) ==
    IF Len(text) > MaxHistoryChars THEN LastChars(text, MaxHistoryChars) ELSE text

\* _build_system_prompt(user_query): a text that ends with a newline
SystemPrompt == <<"c", NL>>
\* "Observation: Reply must start with Thought: and contain an Action.\n"
FormatObsText == <<"c", NL>>
\* f"{llm_out}\n\nObservation: {...}\n" for some blocks and observations
HistoryEntries ==
    {b \o <<NL, NL>> \o o \o <<NL>> :
        b \in {<<"c">>, <<"c", NL, "c">>}, o \in {<<"c">>, <<"c", "c">>, <<"c", NL, "c">>}}

Trimmed(in, out) == [in |-> in, out |-> out]

InitHist ==
    /\ LoopIdle
    /\ RagInit
    /\ StreamIdle
    /\ ParseIdle
    /\ CrawlIdle
    /\ trs = [hist |-> SystemPrompt, prompt |-> <<>>, trims |-> <<>>]

\* an inner-loop iteration whose block is not well-formed: the transcript is
\* trimmed, passed to the model as prompt, and the corrective observation is
\* appended
HistFormatError ==
    /\ \E tok_ok \in BOOLEAN, detok_ok \in BOOLEAN :
          \E h \in {_trim_history(trs.hist, tok_ok, detok_ok)} :
             trs' = [hist |-> h \o FormatObsText,
                     prompt |-> h,
                     trims |-> <<Trimmed(trs.hist, h)>>]
    /\ UNCHANGED <<loopvars, ragvars, strm, prs, crw>>

\* an inner-loop iteration that dispatches: the transcript is trimmed, passed
\* to the model as prompt, block and observation are appended and the
\* transcript is trimmed and clipped
HistDispatch ==
    /\ \E tok_ok \in BOOLEAN, detok_ok \in BOOLEAN, e \in HistoryEntries :
          \E h \in {_trim_history(trs.hist, tok_ok, detok_ok)} :
          \E h2 \in {_trim_history(h \o e, tok_ok, detok_ok)} :
             trs' = [hist |-> ClipHistory(h2),
                     prompt |-> h,
                     trims |-> <<Trimmed(trs.hist, h), Trimmed(h \o e, h2),
                                 Trimmed(h2, ClipHistory(h2))>>]
    /\ UNCHANGED <<loopvars, ragvars, strm, prs, crw>>

NextHist == HistFormatError \/ HistDispatch

SpecHist == InitHist /\ [][NextHist]_vars

\* ------------------------------------------------------ the parser alone
\* _extract_actions(block, limit) applied to every block of at most MaxLines
\* lines and every limit from 1 to MaxLimit.

MaxLines == 3
MaxLimit == 3

ParseLines == {<<"Thought:">>, <<"x">>, <<"Action: Search(", "a)">>,
               <<"Action: Open(", "u1)">>, <<DoneSym>>, <<"Action: Done(", "a)">>,
               <<"Action: Bogus(", "a)">>}

\* the lines joined by newlines
RECURSIVE JoinLines(_)
JoinLines(lines) ==
    IF lines = <<>> THEN <<>>
    ELSE IF Len(lines) = 1 THEN lines[1]
    ELSE lines[1] \o <<NL>> \o JoinLines(Tail(lines))

ParseBlocks == {JoinLines(ls) : ls \in SeqsUpTo(ParseLines, MaxLines)}

InitParse ==
    /\ LoopIdle
    /\ RagInit
    /\ StreamIdle
    /\ HistIdle
    /\ CrawlIdle
    /\ \E block \in ParseBlocks, limit \in 1..MaxLimit :
          prs = [block |-> block, limit |-> limit, applied |-> FALSE, actions |-> <<>>]

ParseApply ==
    /\ ~prs.applied
    /\ prs' = [prs EXCEPT !.applied = TRUE,
                          !.actions = ExtractFrom(splitlines(prs.block), 1, <<>>, prs.limit)]
    /\ UNCHANGED <<loopvars, ragvars, strm, trs, crw>>

NextParse == ParseApply

SpecParse == InitParse /\ [][NextParse]_vars

\* ----------------------------------------------------- the crawler alone
\* crawl_site on a site of three pages and a page of another host. A URL is
\* its netloc, its path and whether it carries a fragment; an href with an
\* empty netloc is relative. A page is served html, something that is not
\* html, or a request error. out keeps the keys of the returned mapping in
\* insertion order (the texts are left out), requested the URLs passed to
\* requests.get in order; the program keeps no such list.

MaxCrawlPages == 2

Url(netloc, path, frag) == [netloc |-> netloc, path |-> path, frag |-> frag]

\* urllib.parse.urljoin, href.split("#")[0], urlparse(u).netloc
urljoin(base, href) == IF href.netloc = "" THEN [href EXCEPT !.netloc = base.netloc] ELSE href
StripFragment(u) == [u EXCEPT !.frag = FALSE]
netloc(u) == u.netloc

\* a link extraction that keeps the links leaving the site
RECURSIVE _extract_links_anyhost(_, _)
_extract_links_anyhost(base_url, hrefs) ==
    IF hrefs = <<>> THEN <<>>
    ELSE <<StripFragment(urljoin(base_url, Head(hrefs)))>>
            \o _extract_links_anyhost(base_url, Tail(hrefs))

\* crawler._extract_links on the hrefs of the page's anchors
RECURSIVE _extract_links(_, _)
_extract_links(base_url, hrefs) ==
    IF hrefs = <<>> THEN <<>>
    ELSE LET href == urljoin(base_url, Head(hrefs))
         IN  (IF netloc(href) = netloc(base_url) THEN <<StripFragment(href)>> ELSE <<>>)
                \o _extract_links(base_url, Tail(hrefs))

\* "for link in ...: if link not in seen and len(seen) + len(q) <
\* max_pages * 3: q.append(link)"
RECURSIVE Enqueue(_, _, _, _)
Enqueue(q, seen, links, max_pages) ==
    IF links = <<>> THEN q
    ELSE Enqueue(IF Head(links) \notin seen /\ Cardinality(seen) + Len(q) < max_pages * 3
                 THEN Append(q, Head(links)) ELSE q,
                 seen, Tail(links), max_pages)

\* the anchors a page may hold: none, a link to the seed page with a
\* fragment (a cycle), the same relative link twice, two pages of the site,
\* a page of another host, a link back to the seed page
LinkMenu ==
    {<<>>,
     <<Url("h", "a", TRUE)>>,
     <<Url("", "b", FALSE), Url("", "b", TRUE)>>,
     <<Url("h", "b", FALSE), Url("h", "c", FALSE)>>,
     <<Url("o", "d", FALSE), Url("", "c", FALSE)>>,
     <<Url("h", "c", FALSE), Url("h", "a", FALSE)>>}

PageKinds == {"html", "other", "error"}
SitePaths == {"a", "b", "c"}

\* what the web answers: the page of another host is html and links back
Sites ==
    {[p \in SitePaths \cup {"d"} |->
         IF p = "d" THEN [kind |-> "html", links |-> <<Url("h", "a", FALSE)>>]
         ELSE IF p = "c" THEN [kind |-> "html", links |-> lc]
         ELSE IF p = "a" THEN [kind |-> ka, links |-> la]
         ELSE [kind |-> kb, links |-> lb]] :
       ka \in PageKinds, kb \in PageKinds,
       la \in LinkMenu, lb \in LinkMenu, lc \in LinkMenu}

Seeds == {Url("h", "a", FALSE), Url("h", "a", TRUE)}

InitCrawl ==
    /\ LoopIdle
    /\ RagInit
    /\ StreamIdle
    /\ HistIdle
    /\ ParseIdle
    /\ \E site \in Sites, seed \in Seeds, max_pages \in 0..MaxCrawlPages :
          crw = [pc |-> "loop", site |-> site, seed |-> seed, max_pages |-> max_pages,
                 q |-> <<seed>>, seen |-> {}, out |-> <<>>, requested |-> <<>>]

\* "while q and len(out) < max_pages"
CrawlOpen == crw.q # <<>> /\ Len(crw.out) < crw.max_pages

\* one iteration of the while loop of crawl_site
CrawlIter ==
    /\ crw.pc = "loop"
    /\ CrawlOpen
    /\ LET url  == Head(crw.q)
           q1   == Tail(crw.q)
           page == crw.site[url.path]
           seen == crw.seen \cup {url}
       IN  IF url \in crw.seen
           THEN crw' = [crw EXCEPT !.q = q1]
           ELSE IF page.kind # "html"
           THEN crw' = [crw EXCEPT !.q = q1, !.seen = seen,
                                   !.requested = Append(@, url)]
           ELSE crw' = [crw EXCEPT !.seen = seen,
                                   !.requested = Append(@, url),
                                   !.out = Append(@, url),
                                   !.q = Enqueue(q1, seen, _extract_links(url, page.links),
                                                 crw.max_pages)]
    /\ UNCHANGED <<loopvars, ragvars, strm, trs, prs>>

\* the loop test fails: "return out"
CrawlReturn ==
    /\ crw.pc = "loop"
    /\ ~CrawlOpen
    /\ crw' = [crw EXCEPT !.pc = "returned"]
    /\ UNCHANGED <<loopvars, ragvars, strm, trs, prs>>

NextCrawl == CrawlIter \/ CrawlReturn

\* crawl_site is one sequential call: it takes its next step whenever it
\* has one
SpecCrawl == InitCrawl /\ [][NextCrawl]_vars /\ WF_vars(NextCrawl)

\* ---------------------------------------------------------------- claims

LastOf(h) == h[Len(h)]

\* an inner-loop iteration that dispatched: it consumed an action slot or
\* returned the final answer
Dispatched == pc = "inner" /\ (actions_run' = actions_run + 1 \/ pc' = "answered")

\* C1: a Done dispatched with fewer than MIN_SUPPORT_SOURCES evidence
\* records appends the observation "Only n source(s); need m." and, while the
\* loop budget is not used up, leaves the run in the turn loop, where the
\* model is invoked again.
C1_RejectedDoneContinues ==
    [][(Dispatched /\ action' = "done" /\ DoneRejected(mem))
         => /\ hist' = <<Obs("Only n source(s); need m.", Len(mem.sources),
                                    MIN_SUPPORT_SOURCES)>>
            /\ (loop < MAX_LOOPS \/ actions_run' < ACTIONS_PER_TURN) => pc' = "inner"]_vars

\* C2: every run reaches Answered or Exhausted, whatever the model returns:
\* corrective retries cannot repeat forever. (A run that ends with an
\* exception is not counted against this claim.)
C2_EveryRunTerminates == <>(pc \in {"answered", "exhausted", "crashed"})

\* C3: the run is in Answered only with at least MIN_SUPPORT_SOURCES evidence
\* records, and those are what the final answer was written from.
C3_AnsweredHasEvidence ==
    pc = "answered" =>
        /\ Len(mem.sources) >= MIN_SUPPORT_SOURCES
        /\ summary_src = mem.sources

C3_Witness == pc = "answered" /\ action = "done" /\ Len(mem.sources) >= 1

\* C4: an iteration that dispatches runs exactly one action, the first one
\* _extract_actions returns for the block; the memory and the observation
\* are those of that action alone.
C4_OnlyFirstActionRuns ==
    [][Dispatched =>
         /\ _has_valid_format(llm_out')
         /\ \E first \in {Head(_extract_actions(llm_out'))} :
               /\ ran' = <<first>>
               /\ \E env \in EnvsFor(mem, <<first>>) :
                     \E r \in {Execute([mem |-> mem, observations |-> <<>>,
                                        answered |-> FALSE, ran |-> <<>>], first, env)} :
                        /\ mem' = r.mem
                        /\ pc' # "answered" => hist' = r.observations]_vars

C4_Witness ==
    /\ Len(_extract_actions(llm_out)) >= 2
    /\ _extract_actions(llm_out)[2].verb = "open"
    /\ ran = <<[verb |-> "search", arg |-> "a"]>>
    /\ DOMAIN mem.cache = {}

\* C5: a block that does not start with "Thought:" or yields no parsed
\* action is not dispatched: the iteration appends the corrective
\* observation and changes neither the memory (cache, evidence list,
\* retrieval index, last-opened page) nor the per-turn action counter.
IllFormedBlock(b) ==
    \/ LStrip(b) = <<>>
    \/ Head(LStrip(b)) # "Thought:"
    \/ _extract_actions(b) = <<>>

C5_IllFormedNeverDispatched ==
    [][(pc = "inner" /\ actions_run < ACTIONS_PER_TURN /\ pc' # "crashed"
          /\ IllFormedBlock(llm_out'))
         => /\ ran' = <<>>
            /\ mem' = mem
            /\ actions_run' = actions_run
            /\ pc' = "inner"
            /\ hist' = <<FormatObs>>]_vars

C5_Witness ==
    /\ pc = "inner"
    /\ llm_out = <<"x", NL, "Action: Search(", "a)">>
    /\ ran = <<>>
    /\ hist = <<FormatObs>>
    /\ DOMAIN mem.cache # {}

\* the text received with the first i tokens
RECURSIVE Received(_, _)
Received(toks, i) == IF i = 0 THEN <<>> ELSE Received(toks, i - 1) \o toks[i]

\* the received text holds a complete line (one ended by a newline) that is a
\* valid action line
HasActionLine(text) ==
    \E j \in DOMAIN text :
        /\ text[j] = NL
        /\ \E l \in DOMAIN splitlines(SubSeq(text, 1, j)) :
              _parse_single_action(Strip(splitlines(SubSeq(text, 1, j))[l])) # NoAction

\* the token that completes the first valid action line, 0 if there is none
FirstActionToken(toks) ==
    IF \E i \in DOMAIN toks : HasActionLine(Received(toks, i))
    THEN CHOOSE i \in DOMAIN toks :
            /\ HasActionLine(Received(toks, i))
            /\ \A j \in 1..(i - 1) : ~HasActionLine(Received(toks, j))
    ELSE 0

\* C6: _stream_until_actions consumes no token after the one that completes
\* the first valid action line, and the block it returns ends with that line.
C6_StopsAtFirstActionLine ==
    (strm.applied /\ ~strm.raised /\ FirstActionToken(strm.toks) # 0) =>
        /\ strm.consumed = FirstActionToken(strm.toks)
        /\ _parse_single_action(LastOf(splitlines(strm.out))) # NoAction

\* df(term): the stored documents that contain the term
DocFreq(docs, t) == Cardinality({i \in DOMAIN docs : t \in TermSet(docs[i].toks)})

\* ln(N / (1 + df(term))) over the documents currently stored
FreshIdf(docs) ==
    [t \in UNION {TermSet(docs[i].toks) : i \in DOMAIN docs} |->
        log(Len(docs), 1000 * DocFreq(docs, t))]

\* C7: the IDF table a query is answered with is ln(N / (1 + df(term)))
\* computed from the documents stored at that moment.
C7_IdfFromScratch == rag_op = "search" => store.idf = FreshIdf(store.docs)

\* C8: a cache entry, once there, stays and keeps its content.
C8_CacheWrittenOnce ==
    [][\A u \in DOMAIN mem.cache :
          u \in DOMAIN mem'.cache /\ mem'.cache[u] = mem.cache[u]]_vars

HitUrls(hits) == [i \in DOMAIN hits |-> hits[i].url]

\* C9: a query after inserting an (id, text) pair twice returns the ids, in
\* order, that it returns when the pair was inserted once.
C9_InsertTwiceSameRanking ==
    (rag_op = "search" /\ repeated) => HitUrls(rag_hits) = HitUrls(once_hits)

\* C10: Answered is entered by an honored Done without the exhaustion
\* notice; Exhausted is entered only with the loop counter at MAX_LOOPS, with
\* the notice printed and the summariser called once on the evidence list.
C10_ExactlyOneTerminal ==
    /\ pc = "answered" =>
          action = "done" /\ ~DoneRejected(mem) /\ ~notice /\ summaries = 1
    /\ pc = "exhausted" =>
          /\ loop = MAX_LOOPS
          /\ notice
          /\ summaries = 1
          /\ summary_src = mem.sources

\* C11: no failure of a collaborator ends the run abnormally: the run never
\* leaves run_research_agent with an exception.
C11_NeverEndsAbnormally == pc # "crashed"

\* C12: when the token stream raised, the block the loop receives is empty,
\* whatever had been received, and the iteration is a format error: it appends
\* the corrective observation, dispatches nothing and stays in the turn.
C12_RaisedStreamIsFormatError ==
    [][(pc = "inner" /\ actions_run < ACTIONS_PER_TURN /\ pc' # "crashed"
          /\ stream_raised')
         => /\ llm_out' = <<>>
            /\ hist' = <<FormatObs>>
            /\ ran' = <<>>
            /\ mem' = mem
            /\ actions_run' = actions_run
            /\ pc' = "inner"]_vars

C12_Witness ==
    /\ pc = "inner"
    /\ stream_raised
    /\ llm_out = <<>>
    /\ hist = <<FormatObs>>
    /\ ran = <<>>
    /\ actions_run = 1

\* out is the text that starts at position start of in
SuffixFrom(in, out, start) ==
    /\ start = Len(in) - Len(out) + 1
    /\ out = SubSeq(in, start, Len(in))

\* position start of text is the start of a line
AtLineStart(text, start) == start = 1 \/ text[start - 1] = NL

\* C13: trimming a transcript longer than the budget, by _trim_history or by
\* the clip after an observation, yields a suffix of it that starts at the
\* start of a line.
C13_TrimKeepsWholeLines ==
    \A i \in DOMAIN trs.trims :
        Len(trs.trims[i].in) > MaxHistoryChars =>
            \E start \in 1..(Len(trs.trims[i].in) + 1) :
                /\ SuffixFrom(trs.trims[i].in, trs.trims[i].out, start)
                /\ AtLineStart(trs.trims[i].in, start)

\* C20: the transcript passed to the model as prompt is never longer than
\* MAX_HISTORY_CHARS.
C20_PromptWithinBudget == Len(trs.prompt) <= MaxHistoryChars

\* C14: similarity_search(query, k) returns at most k hits, in non-increasing
\* order of score, hits of equal score in the order their documents were
\* inserted.
C14_TopKStableDescending ==
    rag_op = "search" =>
        /\ Len(rag_hits) <= rag_k
        /\ \A i, j \in DOMAIN rag_hits :
              i < j => /\ rag_hits[i].score >= rag_hits[j].score
                       /\ rag_hits[i].score = rag_hits[j].score
                             => rag_hits[i].pos < rag_hits[j].pos

\* three hits, the first above two of equal score
C14_Witness ==
    /\ rag_op = "search"
    /\ Len(rag_hits) = 3
    /\ rag_hits[1].score > rag_hits[2].score
    /\ rag_hits[2].score = rag_hits[3].score
    /\ rag_hits[1].pos > rag_hits[2].pos

\* C15: the first action a session dispatches is a Search.
C15_FirstActionIsSearch ==
    [][(Dispatched /\ loop = 1 /\ actions_run = 0) => ran'[1].verb = "search"]_vars

\* the URLs the evidence list has records for
SourceUrls(sources) == {sources[i].url : i \in DOMAIN sources}

\* C16: whatever the value of MIN_SUPPORT_SOURCES, a Done is honored only
\* with evidence records for at least that many distinct URLs.
C16_DoneNeedsDistinctSources ==
    pc = "answered" => Cardinality(SourceUrls(mem.sources)) >= min_sources

\* what the 'Action:' lines of the block parse to, top to bottom
RECURSIVE ParsedFrom(_, _)
ParsedFrom(lines, i) ==
    IF i > Len(lines) THEN <<>>
    ELSE (IF StartsWithAction(Strip(lines[i]))
             /\ _parse_single_action(Strip(lines[i])) # NoAction
          THEN <<_parse_single_action(Strip(lines[i]))>>
          ELSE <<>>) \o ParsedFrom(lines, i + 1)

IsPrefix(s, t) == Len(s) <= Len(t) /\ s = SubSeq(t, 1, Len(s))

\* the dispatcher's answer to an action that reaches its last branch
UnknownAction(act) ==
    Execute([mem |-> NewMemory, observations |-> <<>>, answered |-> FALSE, ran |-> <<>>],
            act, [fetch |-> [u \in URLs |-> FetchNone], crawl |-> <<>>]).observations
      = <<Obs("Unknown action", 0, 0)>>

\* C17: _extract_actions(block, N) returns the parsed 'Action:' lines of the
\* block from the top, up to N of them and up to the first Done, all with
\* supported verbs, at least one when the block has a parseable action line;
\* none of them reaches the dispatcher's "Unknown action" branch.
C17_ExtractedActions ==
    prs.applied =>
        LET acts == prs.actions
            all  == ParsedFrom(splitlines(prs.block), 1)
        IN  /\ Len(acts) <= prs.limit
            /\ IsPrefix(acts, all)
            /\ Len(acts) < Len(all)
                  => (Len(acts) = prs.limit \/ acts[Len(acts)].verb = "done")
            /\ \A i \in DOMAIN acts :
                  /\ acts[i].verb \in {"search", "open", "find", "crawl", "recall", "done"}
                  /\ i < Len(acts) => acts[i].verb # "done"
                  /\ ~UnknownAction(acts[i])
            /\ all # <<>> => acts # <<>>

\* a block whose second action line is a Done and whose third is dropped
C17_Witness ==
    /\ prs.applied
    /\ prs.limit = 3
    /\ Len(ParsedFrom(splitlines(prs.block), 1)) = 3
    /\ Len(prs.actions) = 2
    /\ prs.actions[2].verb = "done"

\* C18: Open(url) of a URL that is not cached either caches the page, or,
\* the fetch having failed, answers "Failed to fetch" and leaves the session
\* memory (evidence list, cache, retrieval index, last-opened page) as it
\* was, so that the next Open of the URL asks the fetch backend again.
C18_FailedFetchChangesNothing ==
    [][\A u \in {"u1", "u2", "a"} :
          (Dispatched /\ ran' = <<[verb |-> "open", arg |-> u]>>
             /\ u \notin DOMAIN mem.cache)
          => \/ /\ u \in DOMAIN mem'.cache
                /\ hist' = <<Obs("[Open]", 0, 0)>>
             \/ /\ hist' = <<Obs("[Open] Failed to fetch", 0, 0)>>
                /\ mem' = mem]_vars

\* a failed Open of u1 after u2 was opened
C18_Witness ==
    /\ ran = <<[verb |-> "open", arg |-> "u1"]>>
    /\ hist = <<Obs("[Open] Failed to fetch", 0, 0)>>
    /\ DOMAIN mem.cache = {"u2"}
    /\ mem.last_opened_url = "u2"
    /\ Len(mem.sources) = 1

\* C19: at most ACTIONS_PER_TURN actions are executed in a turn and at most
\* MAX_LOOPS * ACTIONS_PER_TURN in a run, and once a turn has reached the
\* ceiling or has executed a Done it executes nothing more.
C19_ActionsBounded ==
    [][/\ turn_run' <= ACTIONS_PER_TURN
       /\ total_run' <= MAX_LOOPS * ACTIONS_PER_TURN
       /\ (turn_run >= ACTIONS_PER_TURN \/ action = "done")
             => (total_run' = total_run /\ turn_run' <= turn_run)]_vars

\* a run that executed every action its budget allows
C19_Witness ==
    /\ pc = "exhausted"
    /\ loop = MAX_LOOPS
    /\ turn_run = ACTIONS_PER_TURN
    /\ total_run = MAX_LOOPS * ACTIONS_PER_TURN

\* C21: after an insertion that follows a query, the next similarity_search
\* scores every stored document with a vector computed from the table as it
\* stands after that insertion: no document keeps an unset or an older vector,
\* none is skipped, and with k at least the number of documents the result
\* has exactly one entry for each of them.
C21_SearchRecomputesAllVectors ==
    rag_op = "search" =>
        /\ \A i \in DOMAIN store.docs :
              /\ store.docs[i].hasvec
              /\ store.docs[i].vec = _tfidf_vector(store.docs[i].toks, store.idf)
        /\ rag_k >= Len(store.docs) =>
              /\ Len(rag_hits) = Len(store.docs)
              /\ {rag_hits[i].pos : i \in DOMAIN rag_hits} = DOMAIN store.docs

\* a query, an insertion, and a query again that returns both documents
C21_Witness ==
    /\ rag_op = "search"
    /\ finalize_runs >= 2
    /\ Len(store.docs) >= 2
    /\ rag_k >= Len(store.docs)
    /\ Len(rag_hits) = Len(store.docs)

\* C26: a similarity_search that follows another with the same query and k,
\* with no add between them, returns the same hits and leaves the store
\* (documents, table, flag) as it was; _finalize runs only on a non-empty
\* store that an insertion left unfinalised, hence at most once per batch of
\* insertions; and a query on the empty store returns the empty list.
C26_RepeatedSearchIsStable ==
    [][rag_op' = "search" =>
         /\ (searches_in_row >= 1 /\ rag_k' = rag_k) =>
                (rag_hits' = rag_hits /\ store' = store)
         /\ (store.finalised \/ store.docs = <<>>) =>
                (store' = store /\ finalize_runs' = finalize_runs)
         /\ store' # store => (rag_op = "add" /\ finalize_runs' = finalize_runs + 1)
         /\ store'.docs # <<>> => store'.finalised
         /\ store.docs = <<>> => rag_hits' = <<>>]_vars

\* two queries in a row on a finalised store holding two documents
C26_Witness ==
    /\ rag_op = "search"
    /\ searches_in_row = 2
    /\ store.finalised
    /\ Len(store.docs) = 2
    /\ Len(rag_hits) = 2
    /\ finalize_runs = 1

\* the number of places where the keyword occurs in the text
Occurrences(text, needle) ==
    Cardinality({i \in DOMAIN text : Lower(text[i]) = Lower(needle)})

\* C22: a Find dispatched before any page was opened yields "Nothing open";
\* with a page open it yields at most 3 excerpts, or "No occurrences" when
\* the keyword does not occur in the page; in every case the memory (cache,
\* evidence list, retrieval index, last-opened page) is left as it was.
C22_FindReadsOnly ==
    [][\A arg \in {"a"} :
          (Dispatched /\ ran' = <<[verb |-> "find", arg |-> arg]>>)
             => /\ mem' = mem
                /\ hist' = <<IF ~mem.opened THEN Obs("Nothing open", 0, 0)
                             ELSE IF Occurrences(mem.last_page_text, arg) = 0
                                  THEN Obs("No occurrences", 0, 0)
                                  ELSE hist'[1]>>
                /\ hist'[1].kind = "find hits"
                      => /\ hist'[1].n >= 1
                         /\ hist'[1].n <= 3
                         /\ hist'[1].n <= Occurrences(mem.last_page_text, arg)]_vars

\* a Find on an open page holding the keyword more than 3 times
C22_Witness ==
    /\ ran = <<[verb |-> "find", arg |-> "a"]>>
    /\ mem.opened
    /\ Occurrences(mem.last_page_text, "a") > 3
    /\ hist = <<Obs("find hits", 3, 0)>>

\* a Find with no page open, and one on an open page without the keyword
C22_WitnessNothingOpen ==
    /\ ran = <<[verb |-> "find", arg |-> "a"]>>
    /\ ~mem.opened
    /\ hist = <<Obs("Nothing open", 0, 0)>>

C22_WitnessNoOccurrences ==
    /\ ran = <<[verb |-> "find", arg |-> "a"]>>
    /\ mem.opened
    /\ hist = <<Obs("No occurrences", 0, 0)>>

\* C23: on every link graph, cyclic ones and ones with failing or non-html
\* pages included, crawl_site returns; what it returns has at most max_pages
\* entries, each of the seed's netloc; and no URL is requested twice.
C23_CrawlBounded ==
    /\ [](crw.pc \in {"loop", "returned"} =>
            /\ Len(crw.out) <= crw.max_pages
            /\ \A i, j \in DOMAIN crw.requested :
                  crw.requested[i] = crw.requested[j] => i = j
            /\ \A i \in DOMAIN crw.out : netloc(crw.out[i]) = netloc(crw.seed))
    /\ <>(crw.pc = "returned")

\* a crawl that requested a failing page and was cut at max_pages with a
\* link back to the seed page still queued
C23_Witness ==
    /\ crw.pc = "returned"
    /\ crw.max_pages = MaxCrawlPages
    /\ Len(crw.out) = crw.max_pages
    /\ \E i \in DOMAIN crw.q : crw.q[i].path = crw.seed.path
    /\ \E i \in DOMAIN crw.requested : crw.site[crw.requested[i].path].kind = "error"

\* the URLs a Recall of arg returns on the memory
RecallUrls(m, arg) == HitUrls(similarity_search(m.vstore, QueryText(arg), 5).hits)

\* C24: in every state of a session every URL of the retrieval index has an
\* entry in the page cache; so every URL a Recall returns is served from the
\* cache, the fetch backend is not asked, and the cache is left as it was.
C24_IndexedMeansCached ==
    [][/\ \A i \in DOMAIN mem'.vstore.docs : mem'.vstore.docs[i].url \in DOMAIN mem'.cache
       /\ (Dispatched /\ ran' = <<[verb |-> "recall", arg |-> "a"]>>)
             => /\ \A i \in DOMAIN RecallUrls(mem, "a") :
                      RecallUrls(mem, "a")[i] \in DOMAIN mem.cache
                /\ mem'.cache = mem.cache]_vars

\* a Recall that returned two crawled pages
C24_Witness ==
    /\ ran = <<[verb |-> "recall", arg |-> "a"]>>
    /\ hist = <<Obs("recalled", 2, 0)>>
    /\ Len(mem.vstore.docs) = 2
    /\ DOMAIN mem.cache = {"u1", "u2"}

\* C25: a Recall with a non-empty result appends one evidence record for
\* each hit, in the order of the hits (the page of every hit is cached and
\* not empty), and makes the last hit the last-opened page; the evidence list
\* grows by as many records, no Open being needed.
C25_RecallAddsEvidence ==
    [][(Dispatched /\ ran' = <<[verb |-> "recall", arg |-> "a"]>>
          /\ RecallUrls(mem, "a") # <<>>)
         => \E urls \in {RecallUrls(mem, "a")} :
               /\ Len(mem'.sources) = Len(mem.sources) + Len(urls)
               /\ \A i \in DOMAIN mem.sources : mem'.sources[i] = mem.sources[i]
               /\ \A i \in DOMAIN urls : mem'.sources[Len(mem.sources) + i].url = urls[i]
               /\ mem'.opened
               /\ mem'.last_opened_url = urls[Len(urls)]
               /\ hist' = <<Obs("recalled", Len(urls), 0)>>]_vars

\* a Done honored in a run of three actions on two records of evidence:
\* a Crawl, a Recall with two hits and the Done, no Open among them
C25_Witness ==
    /\ pc = "answered"
    /\ total_run = 3
    /\ ran = <<[verb |-> "done", arg |-> ""]>>
    /\ Len(mem.sources) = 2
    /\ Len(mem.vstore.docs) = 2
    /\ \A u \in DOMAIN mem.cache : mem.cache[u] = get_text(Web[u])

=============================================================================
